---------------------------- MODULE Spec2Model ----------------------------
(***************************************************************************)
(* Fiji (src/fiji.js): an in-memory cache in front of sessionStorage and   *)
(* localStorage.  One engine instance owns the object _cache; the two      *)
(* storages hold one JSON text each under the namespace key _options.ns.   *)
(*                                                                         *)
(* JavaScript values are encoded as strings: "undefined" and "null" are    *)
(* the two JS values of those names, "true"/"false" the booleans, "" the   *)
(* empty string, everything else an ordinary string.  A Date is the pair   *)
(* <<"Date", ms>>, its JSON text form the pair <<"String", ms>>.           *)
(***************************************************************************)
EXTENDS Integers, Sequences, FiniteSets, TLC

VARIABLES
    options,   \* _options: [ttl, longTtl], fixed at construction
    cache,     \* _cache: property name -> item
    order,     \* property names of _cache in insertion order (Object.keys)
    ses,       \* sessionStorage text under _options.ns
    loc,       \* localStorage text under _options.ns
    now,       \* the clock read by new Date()
    synced,    \* history: property name of _cache -> time its item was last
               \* created, loaded, updated or refreshed
    last,      \* history: the public call (or other step) that led here
    others,    \* what the two storages hold under keys other than _options.ns
    peer,      \* _cache (and its insertion order) of a second instance made
               \* by new Fiji() over the same storages and namespace
    frame      \* the call of setStoreItem that has parsed the namespace text
               \* and not yet written it back

vars == <<options, cache, order, ses, loc, now, synced, last, others, peer, frame>>

----------------------------------------------------------------------------
\* Bounds of the model.

MaxTime == 2

Undefined == "undefined"
Null == "null"

\* Arguments the public methods are called with.
KeyArgs == {"a", Undefined}
ManyKeyArgs == {"", "a", Undefined}
ValueArgs == {"v1", Null, Undefined}
FlagArgs == {"true", "false", Undefined}

\* Configurations the engine is constructed with (time unit: 500 ms).
OptionSet == { [ttl |-> 1, longTtl |-> 3],
               [ttl |-> 0, longTtl |-> 0],
               [ttl |-> 0, longTtl |-> 1],
               [ttl |-> 1, longTtl |-> 0] }

----------------------------------------------------------------------------
\* JavaScript helpers.

\* A variable holding null or undefined instead of an object.
NullItem == [null |-> TRUE]

\* An object without own properties.
EmptyObj == [k \in {} |-> NullItem]

\* ToBoolean on the encoded values: !x is ~ToBoolean(x).
ToBoolean(x) == x \notin {"", Undefined, Null, "false"}

\* obj[k] = v
Put(obj, k, v) == [x \in DOMAIN obj \cup {k} |-> IF x = k THEN v ELSE obj[x]]

\* delete obj[k]
Delete(obj, k) == [x \in DOMAIN obj \ {k} |-> obj[x]]

\* The text of a storage: no item (getItem gives null), a text JSON.parse
\* rejects, or the JSON text of an object.
AbsentBlob == [kind |-> "absent", map |-> EmptyObj]
CorruptBlob == [kind |-> "corrupt", map |-> EmptyObj]
ObjectBlob(m) == [kind |-> "object", map |-> m]

\* Date.prototype.toJSON inside JSON.stringify: a Date becomes its ISO string;
\* a string stays a string.
DateToJSON(e) == IF e[1] = "Date" THEN <<"String", e[2]>> ELSE e

\* What a storage holds under a key that is not _options.ns: nothing, or a
\* text some other code put there.
NoText == "no item"
OtherText == "text of other code"

\* JSON.stringify of one cache item.
ItemToJSON(item) == [item EXCEPT !.expires = DateToJSON(@)]

\* JSON.stringify(storeObj)
JSONstringify(storeObj) == ObjectBlob([k \in DOMAIN storeObj |-> ItemToJSON(storeObj[k])])

\* new Date(x.valueOf()).valueOf() for a Date or an ISO string
DateValue(e) == e[2]

----------------------------------------------------------------------------
\* Private functions of the engine.  S is the record
\* [cache, order, ses, loc] the function runs on.

\* What a call ends with: a normal return or the exception it raises.
NoError == "none"
ParseError == "SyntaxError: JSON.parse"
NullStoreError == "TypeError: storeObj is null"
NullItemError == "TypeError: item is null or undefined"

validateItem(item) ==
    /\ item # NullItem
    /\ item.id # Undefined
    /\ item.value # Undefined
    /\ item.expires[1] # Undefined
    /\ item.isLongTerm # Undefined

\* calculateExpiresDate returning its date argument: the TTL is not added.
calculateExpiresDate_NoTtl(ttl, t) == <<"Date", t>>

calculateExpiresDate(ttl, t) ==
    LET _ttl == IF ttl # 0 THEN ttl ELSE options.ttl
    IN  <<"Date", t + _ttl>>

createNewItem(key, value, isLongTerm, t) ==
    [ id |-> key,
      value |-> IF value = Undefined THEN Null ELSE value,
      expires |-> calculateExpiresDate(IF ToBoolean(isLongTerm) THEN options.ttl
                                       ELSE options.longTtl, t),
      isLongTerm |-> IF ToBoolean(isLongTerm) THEN "true" ELSE "false" ]

\* _cache[key]
CacheAt(S, key) == IF key \in DOMAIN S.cache THEN S.cache[key] ELSE NullItem

getCacheItem(S, key) ==
    IF ~ToBoolean(key) THEN NullItem
    ELSE IF validateItem(CacheAt(S, key)) THEN CacheAt(S, key) ELSE NullItem

\* setCacheItem that files the item under its value instead of its id.
setCacheItem_UnderValue(S, item) ==
    IF ~validateItem(item) THEN S
    ELSE [S EXCEPT !.cache = Put(@, item.value, item),
                   !.order = IF item.value \in DOMAIN S.cache THEN @
                             ELSE Append(@, item.value)]

\* setCacheItem that also writes the item into the storage of its class.
setCacheItem_Persisting(S, item) ==
    IF ~validateItem(item) THEN S
    ELSE LET which == IF ToBoolean(item.isLongTerm) THEN "loc" ELSE "ses"
         IN  [S EXCEPT !.cache = Put(@, item.id, item),
                       !.order = IF item.id \in DOMAIN S.cache THEN @
                                 ELSE Append(@, item.id),
                       ![which] = JSONstringify(Put(S[which].map, item.id, item))]

setCacheItem(S, item) ==
    IF ~validateItem(item) THEN S
    ELSE [S EXCEPT !.cache = Put(@, item.id, item),
                   !.order = IF item.id \in DOMAIN S.cache THEN @
                             ELSE Append(@, item.id)]

deleteCacheItem(S, key) ==
    IF ~ToBoolean(key) THEN S
    ELSE IF key \in DOMAIN S.cache
         THEN [S EXCEPT !.cache = Delete(@, key),
                        !.order = SelectSeq(@, LAMBDA k : k # key)]
         ELSE S

\* The choice of the storage when every item goes to sessionStorage.
StoreOf_AlwaysSession(item) == "ses"

\* item.isLongTerm ? locSto : sesSto
StoreOf(item) == IF ToBoolean(item.isLongTerm) THEN "loc" ELSE "ses"

\* getStoreItem reading sessionStorage whatever the class of the cached item.
getStoreItem_SessionOnly(S, key) ==
    IF ~ToBoolean(key)
    THEN [item |-> NullItem, err |-> NoError, rd |-> {}]
    ELSE CASE S.ses.kind = "corrupt" ->
                [item |-> NullItem, err |-> ParseError, rd |-> {"ses"}]
           [] OTHER ->
                [item |-> IF key \in DOMAIN S.ses.map THEN S.ses.map[key]
                          ELSE NullItem,
                 err |-> NoError, rd |-> {"ses"}]

\* getStoreItem looking into localStorage when sessionStorage has nothing
\* under the key.
getStoreItem_EitherStorage(S, key) ==
    IF ~ToBoolean(key)
    THEN [item |-> NullItem, err |-> NoError, rd |-> {}]
    ELSE CASE S.ses.kind = "corrupt" \/ S.loc.kind = "corrupt" ->
                [item |-> NullItem, err |-> ParseError, rd |-> {"ses", "loc"}]
           [] OTHER ->
                [item |-> IF key \in DOMAIN S.ses.map THEN S.ses.map[key]
                          ELSE IF key \in DOMAIN S.loc.map THEN S.loc.map[key]
                          ELSE NullItem,
                 err |-> NoError, rd |-> {"ses", "loc"}]

\* Result: the object found (NullItem for null/undefined), the error raised
\* by JSON.parse, and the storages read.
getStoreItem(S, key) ==
    IF ~ToBoolean(key)
    THEN [item |-> NullItem, err |-> NoError, rd |-> {}]
    ELSE LET item == CacheAt(S, key)
             which == IF validateItem(item) /\ ToBoolean(item.isLongTerm)
                      THEN "loc" ELSE "ses"
             blob == S[which]
         IN  CASE blob.kind = "corrupt" ->
                    [item |-> NullItem, err |-> ParseError, rd |-> {which}]
               [] blob.kind = "absent" ->
                    [item |-> NullItem, err |-> NoError, rd |-> {which}]
               [] OTHER ->
                    [item |-> IF key \in DOMAIN blob.map THEN blob.map[key]
                              ELSE NullItem,
                     err |-> NoError, rd |-> {which}]

\* setStoreItem writing a namespace object that holds the item alone.
setStoreItem_Replacing(S, item) ==
    IF ~validateItem(item)
    THEN [S |-> S, err |-> NoError, rd |-> {}, wr |-> {}]
    ELSE LET which == IF ToBoolean(item.isLongTerm) THEN "loc" ELSE "ses"
         IN  [S |-> [S EXCEPT ![which] = JSONstringify(Put(EmptyObj, item.id, item))],
              err |-> NoError, rd |-> {}, wr |-> {which}]

\* Result: the new S, the error raised, the storages read and written.
setStoreItem(S, item) ==
    IF ~validateItem(item)
    THEN [S |-> S, err |-> NoError, rd |-> {}, wr |-> {}]
    ELSE LET which == StoreOf(item)
             blob == S[which]
         IN  IF blob.kind = "corrupt"
             THEN [S |-> S, err |-> ParseError, rd |-> {which}, wr |-> {}]
             ELSE [S |-> [S EXCEPT ![which] = JSONstringify(Put(blob.map, item.id, item))],
                   err |-> NoError, rd |-> {which}, wr |-> {which}]

deleteStoreItem(S, key) ==
    IF ~ToBoolean(key)
    THEN [S |-> S, err |-> NoError, rd |-> {}, wr |-> {}]
    ELSE LET item == CacheAt(S, key)
         IN  IF ~validateItem(item)
             THEN [S |-> S, err |-> NoError, rd |-> {}, wr |-> {}]
             ELSE LET which == StoreOf(item)
                      blob == S[which]
                  IN  CASE blob.kind = "corrupt" ->
                             [S |-> S, err |-> ParseError, rd |-> {which}, wr |-> {}]
                        [] blob.kind = "absent" ->
                             \* storeObj is null: storeObj[item.id] = null raises
                             [S |-> S, err |-> NullStoreError, rd |-> {which}, wr |-> {}]
                        [] OTHER ->
                             [S |-> [S EXCEPT ![which] =
                                       JSONstringify(Delete(blob.map, item.id))],
                              err |-> NoError, rd |-> {which}, wr |-> {which}]

\* isExpired that also counts an item expiring at this very instant.
isExpired_AtNow(item, t) == DateValue(item.expires) <= t

isExpired(item, t) == DateValue(item.expires) < t

----------------------------------------------------------------------------
\* Public methods.  Each gives the record
\*   [S, ret, err, path, rd, wr, touched, listed]:
\* the state it leaves (also when it raises part way), the value returned,
\* the error raised, the branch taken, the storages read and written, the
\* property names of _cache whose item it created, loaded or assigned to, and
\* (for list) the object returned.

Outcome(S, ret, err, path, rd, wr, touched) ==
    [S |-> S, ret |-> ret, err |-> err, path |-> path,
     rd |-> rd, wr |-> wr, touched |-> touched, listed |-> EmptyObj]

\* The TTL handed to calculateExpiresDate for an existing item.
TtlFor(item) == IF ToBoolean(item.isLongTerm) THEN options.ttl ELSE options.longTtl

get(S, key, t) ==
    LET item == getCacheItem(S, key)
    IN  IF item = NullItem
        THEN \* prime cache
             LET g == getStoreItem(S, key)
                 storeObj == IF g.item = NullItem
                             THEN createNewItem(key, Null, Undefined, t)
                             ELSE g.item
                 S1 == setCacheItem(S, storeObj)
                 item1 == getCacheItem(S1, key)
                 touched == IF validateItem(storeObj) THEN {storeObj.id} ELSE {}
             IN  IF g.err # NoError
                 THEN Outcome(S, Undefined, g.err, "prime", g.rd, {}, {})
                 ELSE IF item1 = NullItem
                      THEN \* item.value with item null or undefined
                           Outcome(S1, Undefined, NullItemError, "prime", g.rd, {}, touched)
                      ELSE Outcome(S1, item1.value, NoError, "prime", g.rd, {}, touched)
        ELSE IF isExpired(item, t)
        THEN \* refresh expired cached item from storage
             LET g == getStoreItem(S, key)
                 item1 == IF validateItem(g.item)
                          THEN [item EXCEPT !.value = g.item.value]
                          ELSE item
                 item2 == [item1 EXCEPT !.expires = calculateExpiresDate(TtlFor(item), t)]
                 \* item is the object held by _cache: changed in place
                 S1 == [S EXCEPT !.cache[key] = item2]
                 w == setStoreItem(S1, item2)
                 S2 == setCacheItem(w.S, item2)
             IN  IF g.err # NoError
                 THEN Outcome(S, Undefined, g.err, "refresh", g.rd, {}, {})
                 ELSE IF w.err # NoError
                      THEN Outcome(S1, Undefined, w.err, "refresh", g.rd \cup w.rd,
                                   {}, {key})
                      ELSE Outcome(S2, item2.value, NoError, "refresh",
                                   g.rd \cup w.rd, w.wr, {key})
        ELSE Outcome(S, item.value, NoError, "fresh", {}, {}, {})

set(S, key, value, isLongTerm, t) ==
    LET item0 == getCacheItem(S, key)
        created == (item0 = NullItem)
        path == IF created THEN "create" ELSE "update"
        item1 == IF created
                 THEN createNewItem(key, value, isLongTerm, t)
                 ELSE [item0 EXCEPT !.value = value,
                                    !.expires = calculateExpiresDate(TtlFor(item0), t)]
        \* an existing item is the object held by _cache: changed in place
        S1 == IF created THEN S ELSE [S EXCEPT !.cache[key] = item1]
        differs == item1.isLongTerm # (IF ToBoolean(isLongTerm) THEN "true" ELSE "false")
        d == IF differs THEN deleteStoreItem(S1, key)
             ELSE [S |-> S1, err |-> NoError, rd |-> {}, wr |-> {}]
        item2 == IF differs THEN [item1 EXCEPT !.isLongTerm = isLongTerm] ELSE item1
        S2 == IF created THEN d.S ELSE [d.S EXCEPT !.cache[key] = item2]
        w == setStoreItem(S2, item2)
        S3 == setCacheItem(w.S, item2)
        touched1 == IF created THEN {} ELSE {key}
        touched3 == IF validateItem(item2) THEN {item2.id} ELSE touched1
    IN  IF d.err # NoError
        THEN Outcome(S1, Undefined, d.err, path, d.rd, {}, touched1)
        ELSE IF w.err # NoError
             THEN Outcome(S2, Undefined, w.err, path, d.rd \cup w.rd, d.wr, touched1)
             ELSE Outcome(S3, Undefined, NoError, path, d.rd \cup w.rd,
                          d.wr \cup w.wr, touched3)

\* del whose reset empties _cache and leaves the two storages alone.
del_KeepsStorage(S, key, confirmDeleteAll) ==
    IF ~ToBoolean(key) /\ ToBoolean(confirmDeleteAll)
    THEN Outcome([S EXCEPT !.cache = EmptyObj, !.order = <<>>],
                 Undefined, NoError, "wipe", {}, {}, {})
    ELSE LET d == deleteStoreItem(S, key)
         IN  IF d.err # NoError
             THEN Outcome(S, Undefined, d.err, "delete", d.rd, {}, {})
             ELSE Outcome(deleteCacheItem(d.S, key), Undefined, NoError, "delete",
                          d.rd, d.wr, {})

\* del whose reset calls clear() on both storages instead of
\* removeItem(_options.ns).
del_ClearsStorage(S, key, confirmDeleteAll) ==
    IF ~ToBoolean(key) /\ ToBoolean(confirmDeleteAll)
    THEN Outcome([S EXCEPT !.cache = EmptyObj, !.order = <<>>,
                           !.ses = AbsentBlob, !.loc = AbsentBlob,
                           !.others = [ses |-> NoText, loc |-> NoText]],
                 Undefined, NoError, "wipe", {}, {"ses", "loc"}, {})
    ELSE LET d == deleteStoreItem(S, key)
         IN  IF d.err # NoError
             THEN Outcome(S, Undefined, d.err, "delete", d.rd, {}, {})
             ELSE Outcome(deleteCacheItem(d.S, key), Undefined, NoError, "delete",
                          d.rd, d.wr, {})

\* del removing the key from _cache first and from the storage afterwards.
del_CacheFirst(S, key, confirmDeleteAll) ==
    IF ~ToBoolean(key) /\ ToBoolean(confirmDeleteAll)
    THEN Outcome([S EXCEPT !.cache = EmptyObj, !.order = <<>>,
                           !.ses = AbsentBlob, !.loc = AbsentBlob],
                 Undefined, NoError, "wipe", {}, {"ses", "loc"}, {})
    ELSE LET d == deleteStoreItem(deleteCacheItem(S, key), key)
         IN  Outcome(d.S, Undefined, d.err, "delete", d.rd, d.wr, {})

\* del that resets whenever confirmDeleteAll is truthy, whatever the key.
del_WipeOnConfirm(S, key, confirmDeleteAll) ==
    IF ToBoolean(confirmDeleteAll)
    THEN Outcome([S EXCEPT !.cache = EmptyObj, !.order = <<>>,
                           !.ses = AbsentBlob, !.loc = AbsentBlob],
                 Undefined, NoError, "wipe", {}, {"ses", "loc"}, {})
    ELSE LET d == deleteStoreItem(S, key)
         IN  IF d.err # NoError
             THEN Outcome(S, Undefined, d.err, "delete", d.rd, {}, {})
             ELSE Outcome(deleteCacheItem(d.S, key), Undefined, NoError, "delete",
                          d.rd, d.wr, {})

del(S, key, confirmDeleteAll) ==
    IF ~ToBoolean(key) /\ ToBoolean(confirmDeleteAll)
    THEN Outcome([S EXCEPT !.cache = EmptyObj, !.order = <<>>,
                           !.ses = AbsentBlob, !.loc = AbsentBlob],
                 Undefined, NoError, "wipe", {}, {"ses", "loc"}, {})
    ELSE LET d == deleteStoreItem(S, key)
         IN  IF d.err # NoError
             THEN Outcome(S, Undefined, d.err, "delete", d.rd, {}, {})
             ELSE Outcome(deleteCacheItem(d.S, key), Undefined, NoError, "delete",
                          d.rd, d.wr, {})

\* The loop of list() over keys[i..]: acc is valuesObj so far.
RECURSIVE listFrom(_, _, _, _, _, _, _, _)
listFrom(S, keys, i, acc, rd, wr, touched, t) ==
    IF i > Len(keys)
    THEN [S |-> S, ret |-> Undefined, err |-> NoError, path |-> "list",
          rd |-> rd, wr |-> wr, touched |-> touched, listed |-> acc]
    ELSE LET g == get(S, keys[i], t)
         IN  IF g.err # NoError
             THEN [S |-> g.S, ret |-> Undefined, err |-> g.err, path |-> "list",
                   rd |-> rd \cup g.rd, wr |-> wr \cup g.wr,
                   touched |-> touched \cup g.touched, listed |-> acc]
             ELSE listFrom(g.S, keys, i + 1, Put(acc, keys[i], g.ret),
                           rd \cup g.rd, wr \cup g.wr, touched \cup g.touched, t)

list(S, t) == listFrom(S, S.order, 1, EmptyObj, {}, {}, {}, t)

----------------------------------------------------------------------------
\* The state machine: one engine, called by one thread.

Engine == [cache |-> cache, order |-> order, ses |-> ses, loc |-> loc,
           others |-> others]

\* No call of setStoreItem is under way.
NoFrame == [pc |-> "idle"]

Call(op, key, value, flag) ==
    [op |-> op, key |-> key, value |-> value, flag |-> flag]

\* The step that installs the outcome r of a public call.
Install(r, call) ==
    /\ frame = NoFrame
    /\ cache' = r.S.cache
    /\ order' = r.S.order
    /\ ses' = r.S.ses
    /\ loc' = r.S.loc
    /\ synced' = [k \in DOMAIN r.S.cache |->
                    IF k \in r.touched \/ k \notin DOMAIN synced THEN now
                    ELSE synced[k]]
    /\ last' = [op |-> call.op, key |-> call.key, value |-> call.value,
                flag |-> call.flag, ret |-> r.ret, err |-> r.err,
                path |-> r.path, rd |-> r.rd, wr |-> r.wr, listed |-> r.listed]
    /\ others' = r.S.others
    /\ UNCHANGED <<options, now, peer, frame>>

\* A step that is no public call.
Other(what) ==
    [op |-> what, key |-> Undefined, value |-> Undefined,
     flag |-> Undefined, ret |-> Undefined, err |-> NoError,
     path |-> what, rd |-> {}, wr |-> {}, listed |-> EmptyObj]

\* new Fiji(opts) over empty storages.
InitWith(opts) ==
    /\ options \in opts
    /\ cache = EmptyObj
    /\ order = <<>>
    /\ ses = AbsentBlob
    /\ loc = AbsentBlob
    /\ now = 0
    /\ synced = EmptyObj
    /\ last = Other("new")
    /\ others = [ses |-> OtherText, loc |-> OtherText]
    /\ peer = [cache |-> EmptyObj, order |-> <<>>]
    /\ frame = NoFrame

Get(keys) == \E key \in keys :
    Install(get(Engine, key, now), Call("get", key, Undefined, Undefined))

Set(keys, values, flags) == \E key \in keys, value \in values, isLongTerm \in flags :
    Install(set(Engine, key, value, isLongTerm, now),
            Call("set", key, value, isLongTerm))

Del(keys, flags) == \E key \in keys, confirmDeleteAll \in flags :
    Install(del(Engine, key, confirmDeleteAll),
            Call("del", key, Undefined, confirmDeleteAll))

List == Install(list(Engine, now), Call("list", Undefined, Undefined, Undefined))

\* Time passes between two calls.
Tick ==
    /\ now < MaxTime
    /\ now' = now + 1
    /\ last' = Other("tick")
    /\ UNCHANGED <<options, cache, order, ses, loc, synced, others, peer, frame>>

\* One engine over storages nobody else writes, as time passes.
Init == InitWith(OptionSet)

Next == Get(KeyArgs) \/ Set(KeyArgs, ValueArgs, FlagArgs) \/ Del(KeyArgs, FlagArgs) \/ List \/ Tick

Spec == Init /\ [][Next]_vars

\* One engine called with empty and non-empty keys, the clock standing still.
InitKeys == InitWith({[ttl |-> 1, longTtl |-> 3]})

NextKeys == Get(ManyKeyArgs) \/ Set(ManyKeyArgs, ValueArgs, FlagArgs) \/ Del(ManyKeyArgs, FlagArgs) \/ List

SpecKeys == InitKeys /\ [][NextKeys]_vars

----------------------------------------------------------------------------
\* The storages are shared: another writer (another page, another library)
\* may change either text between two calls of the engine.

SharedKeyArgs == {"a"}
SharedValueArgs == {"v1"}
SharedFlagArgs == {"true", "false"}

\* The expiry time another writer stamps its items with.
ExternalExpires == 1

\* Objects another writer may put under key: a well-formed item, items with
\* one property missing, and an item whose id names another key.
ExternalItems(which, key) ==
    LET good == [id |-> key, value |-> "v2", expires |-> <<"String", ExternalExpires>>,
                 isLongTerm |-> IF which = "loc" THEN "true" ELSE "false"]
    IN  { good,
          [good EXCEPT !.id = Undefined],
          [good EXCEPT !.value = Undefined],
          [good EXCEPT !.expires = <<Undefined, 0>>],
          [good EXCEPT !.isLongTerm = Undefined],
          [good EXCEPT !.id = "b"] }

SetText(which, text) ==
    /\ ses' = IF which = "ses" THEN text ELSE ses
    /\ loc' = IF which = "loc" THEN text ELSE loc
    /\ last' = Other("external")
    /\ UNCHANGED <<options, cache, order, now, synced, others, peer, frame>>

\* Another writer stores a text JSON.parse rejects.
ExtCorrupt == \E which \in {"ses", "loc"} : SetText(which, CorruptBlob)

\* Another writer removes the namespace item.
ExtRemove == \E which \in {"ses", "loc"} : SetText(which, AbsentBlob)

\* Another writer merges one object into the namespace text.
ExtPut == \E which \in {"ses", "loc"}, key \in SharedKeyArgs :
    \E item \in ExternalItems(which, key) :
        SetText(which, JSONstringify(Put(Engine[which].map, key, item)))

InitShared == InitWith({[ttl |-> 1, longTtl |-> 3]})

NextShared ==
    \/ Get(SharedKeyArgs) \/ Set(SharedKeyArgs, SharedValueArgs, SharedFlagArgs) \/ Del(SharedKeyArgs, SharedFlagArgs) \/ List \/ Tick
    \/ ExtCorrupt \/ ExtRemove \/ ExtPut

SpecShared == InitShared /\ [][NextShared]_vars

\* The other writer is another engine, or a library that keeps the namespace
\* text a JSON object: it puts and removes, and stores no unparsable text.
InitWriter == InitWith({[ttl |-> 1, longTtl |-> 3]})

NextWriter ==
    \/ Get(SharedKeyArgs) \/ Set(SharedKeyArgs, SharedValueArgs, SharedFlagArgs) \/ Del(SharedKeyArgs, SharedFlagArgs) \/ List \/ Tick
    \/ ExtRemove \/ ExtPut

SpecWriter == InitWriter /\ [][NextWriter]_vars

\* One engine called with two keys, as time passes.
TwoKeyArgs == {"a", "b", Undefined}

InitTwo == InitWith({[ttl |-> 1, longTtl |-> 3]})

NextTwo == Get(TwoKeyArgs) \/ Set(TwoKeyArgs, SharedValueArgs, FlagArgs) \/ Del(TwoKeyArgs, FlagArgs) \/ List \/ Tick

SpecTwo == InitTwo /\ [][NextTwo]_vars

----------------------------------------------------------------------------
\* A second engine, constructed with the same options over the same two
\* storages.  Its _cache is the variable declared by its own constructor
\* call; the storages and what they hold are the ones the first engine uses.

PeerEngine == [cache |-> peer.cache, order |-> peer.order, ses |-> ses, loc |-> loc,
               others |-> others]

PeerOps == {"peer.get", "peer.set", "peer.del", "peer.list"}

\* The outcome of a call on the second engine when _cache is one object
\* declared outside the constructor and used by every engine.
PeerInstall_SharedCache(r, call) ==
    /\ peer' = [cache |-> r.S.cache, order |-> r.S.order]
    /\ cache' = r.S.cache
    /\ order' = r.S.order
    /\ ses' = r.S.ses
    /\ loc' = r.S.loc
    /\ others' = r.S.others
    /\ last' = [op |-> call.op, key |-> call.key, value |-> call.value,
                flag |-> call.flag, ret |-> r.ret, err |-> r.err,
                path |-> r.path, rd |-> r.rd, wr |-> r.wr, listed |-> r.listed]
    /\ UNCHANGED <<options, now, synced, frame>>

\* The step that installs the outcome r of a public call on the second engine.
PeerInstall(r, call) ==
    /\ peer' = [cache |-> r.S.cache, order |-> r.S.order]
    /\ ses' = r.S.ses
    /\ loc' = r.S.loc
    /\ others' = r.S.others
    /\ last' = [op |-> call.op, key |-> call.key, value |-> call.value,
                flag |-> call.flag, ret |-> r.ret, err |-> r.err,
                path |-> r.path, rd |-> r.rd, wr |-> r.wr, listed |-> r.listed]
    /\ UNCHANGED <<options, cache, order, now, synced, frame>>

PeerGet(keys) == \E key \in keys :
    PeerInstall(get(PeerEngine, key, now), Call("peer.get", key, Undefined, Undefined))

PeerSet(keys, values, flags) == \E key \in keys, value \in values, isLongTerm \in flags :
    PeerInstall(set(PeerEngine, key, value, isLongTerm, now),
                Call("peer.set", key, value, isLongTerm))

PeerDel(keys, flags) == \E key \in keys, confirmDeleteAll \in flags :
    PeerInstall(del(PeerEngine, key, confirmDeleteAll),
                Call("peer.del", key, Undefined, confirmDeleteAll))

PeerList ==
    PeerInstall(list(PeerEngine, now), Call("peer.list", Undefined, Undefined, Undefined))

\* Two engines over the same storages, called in any order.
InitPeers == InitWith({[ttl |-> 1, longTtl |-> 3]})

NextPeers ==
    \/ Get(KeyArgs) \/ Set(KeyArgs, SharedValueArgs, SharedFlagArgs) \/ Del(KeyArgs, SharedFlagArgs) \/ List
    \/ PeerGet(KeyArgs) \/ PeerSet(KeyArgs, SharedValueArgs, SharedFlagArgs) \/ PeerDel(KeyArgs, SharedFlagArgs) \/ PeerList
    \/ Tick

SpecPeers == InitPeers /\ [][NextPeers]_vars

----------------------------------------------------------------------------
\* The two storages are shared with code that does not run on the engine's
\* thread (localStorage with every page of the origin), so a write of that
\* code may fall between the getItem and the setItem of setStoreItem or of
\* deleteStoreItem.  The first engine's calls on a new key and its deletions
\* are taken in two steps here: up to the getItem, and from there to the end
\* of the call.  frame holds what the call keeps between the two: the item,
\* the storage chosen and storeObj, the object parsed.

RaceKeyArgs == {"b"}
PeerKeyArgs == {"a"}
LongFlagArgs == {"true"}

\* The rest of setStoreItem when it reads the text again before it writes.
writeStoreObj_Reloading(S, which, storeObj, item) ==
    [S EXCEPT ![which] = JSONstringify(Put(S[which].map, item.id, item))]

\* The rest of setStoreItem: storeObj (an empty object if there was no text)
\* gets the item and is written over the text.
writeStoreObj(S, which, storeObj, item) ==
    [S EXCEPT ![which] = JSONstringify(Put(storeObj.map, item.id, item))]

\* The rest of deleteStoreItem for a storeObj that is an object.
removeStoreObj(S, which, storeObj, item) ==
    [S EXCEPT ![which] = JSONstringify(Delete(storeObj.map, item.id))]

Loaded(call, item) ==
    [pc |-> "loaded", call |-> call, item |-> item, which |-> StoreOf(item),
     storeObj |-> Engine[StoreOf(item)]]

\* set(key, value, isLongTerm) for a key getCacheItem has no item for, up to
\* the getItem of setStoreItem.
SaveLoad(keys, values, flags) == \E key \in keys, value \in values, isLongTerm \in flags :
    /\ frame = NoFrame
    /\ getCacheItem(Engine, key) = NullItem
    /\ frame' = Loaded(Call("set", key, value, isLongTerm),
                       createNewItem(key, value, isLongTerm, now))
    /\ last' = Other("load")
    /\ UNCHANGED <<options, cache, order, ses, loc, now, synced, others, peer>>

\* del(key) for a key with a well-formed item, up to the getItem of
\* deleteStoreItem.
DelLoad(keys) == \E key \in keys :
    /\ frame = NoFrame
    /\ ToBoolean(key)
    /\ validateItem(CacheAt(Engine, key))
    /\ frame' = Loaded(Call("del", key, Undefined, Undefined), CacheAt(Engine, key))
    /\ last' = Other("load")
    /\ UNCHANGED <<options, cache, order, ses, loc, now, synced, others, peer>>

\* The end of a call taken in two steps: S is what it leaves behind.
Finish(S, err, path, wr, touched) ==
    /\ cache' = S.cache
    /\ order' = S.order
    /\ ses' = S.ses
    /\ loc' = S.loc
    /\ synced' = [k \in DOMAIN S.cache |->
                    IF k \in touched \/ k \notin DOMAIN synced THEN now
                    ELSE synced[k]]
    /\ last' = [op |-> frame.call.op, key |-> frame.call.key,
                value |-> frame.call.value, flag |-> frame.call.flag,
                ret |-> Undefined, err |-> err, path |-> path,
                rd |-> {frame.which}, wr |-> wr, listed |-> EmptyObj]
    /\ frame' = NoFrame
    /\ UNCHANGED <<options, now, others, peer>>

\* The rest of that set: the setItem, then setCacheItem.
SaveWrite ==
    /\ frame.pc = "loaded"
    /\ frame.call.op = "set"
    /\ Finish(setCacheItem(writeStoreObj(Engine, frame.which, frame.storeObj, frame.item),
                           frame.item),
              NoError, "create", {frame.which}, {frame.item.id})

\* The rest of that del: storeObj[item.id] = null raises if storeObj is null;
\* otherwise the setItem, then deleteCacheItem.
DelWrite ==
    /\ frame.pc = "loaded"
    /\ frame.call.op = "del"
    /\ IF frame.storeObj.kind = "absent"
       THEN Finish(Engine, NullStoreError, "delete", {}, {})
       ELSE Finish(deleteCacheItem(removeStoreObj(Engine, frame.which, frame.storeObj,
                                                  frame.item),
                                   frame.call.key),
                   NoError, "delete", {frame.which}, {})

\* One engine working on "b" while a second engine, in another page, keeps
\* "a" in localStorage and deletes nothing.
InitRace == InitWith({[ttl |-> 1, longTtl |-> 3]})

NextRace ==
    \/ SaveLoad(RaceKeyArgs, SharedValueArgs, SharedFlagArgs) \/ SaveWrite
    \/ DelLoad(RaceKeyArgs) \/ DelWrite
    \/ Get(RaceKeyArgs) \/ Set(RaceKeyArgs, SharedValueArgs, SharedFlagArgs)
    \/ PeerGet(PeerKeyArgs) \/ PeerSet(PeerKeyArgs, SharedValueArgs, LongFlagArgs)
    \/ Tick

SpecRace == InitRace /\ [][NextRace]_vars

----------------------------------------------------------------------------
\* The second engine is constructed anew (a page is loaded again) over the
\* storages as the first engine has left them.

DebugArgs == {"true", "false", Undefined}

\* new Fiji({debug: debug}): _cache starts empty; with debug the constructor
\* removes the namespace item from both storages.
Fiji(S, debug) ==
    IF ToBoolean(debug)
    THEN [S EXCEPT !.cache = EmptyObj, !.order = <<>>,
                   !.ses = AbsentBlob, !.loc = AbsentBlob]
    ELSE [S EXCEPT !.cache = EmptyObj, !.order = <<>>]

PeerNew(debugs) == \E debug \in debugs :
    PeerInstall(Outcome(Fiji(PeerEngine, debug), Undefined, NoError, "new", {},
                        IF ToBoolean(debug) THEN {"ses", "loc"} ELSE {}, {}),
                Call("peer.new", Undefined, Undefined, debug))

InitNew == InitWith({[ttl |-> 1, longTtl |-> 3]})

NextNew ==
    \/ Get(SharedKeyArgs) \/ Set(SharedKeyArgs, SharedValueArgs, SharedFlagArgs)
    \/ Del(KeyArgs, SharedFlagArgs) \/ List \/ Tick
    \/ PeerNew(DebugArgs) \/ PeerGet(SharedKeyArgs)

SpecNew == InitNew /\ [][NextNew]_vars

----------------------------------------------------------------------------
\* One engine that reads and deletes "a" and "b" and sets "b" alone, as time
\* passes: "a" is a key no set is ever called with.

UnsetKey == "a"
SetKeyArgs == {"b"}
ReadKeyArgs == {"a", "b"}

InitUnset == InitWith(OptionSet)

NextUnset ==
    \/ Get(ReadKeyArgs) \/ Set(SetKeyArgs, SharedValueArgs, SharedFlagArgs)
    \/ Del(TwoKeyArgs, SharedFlagArgs) \/ List \/ Tick

SpecUnset == InitUnset /\ [][NextUnset]_vars

----------------------------------------------------------------------------
\* Properties.  A state is judged through last, the call that led to it, or
\* by applying a method to it.

\* The store a retention-class argument selects, and the class it stands for.
StoreForFlag(flag) == IF ToBoolean(flag) THEN "loc" ELSE "ses"
ClassForFlag(flag) == IF ToBoolean(flag) THEN "true" ELSE "false"

\* storage which holds an object under key k
Holds(which, k) == k \in DOMAIN Engine[which].map

\* The TTL of an item's own retention class.
OwnTtl(item) == IF ToBoolean(item.isLongTerm) THEN options.longTtl ELSE options.ttl

\* The last step was set with a non-empty key and a defined value.
ProperSet == last.op = "set" /\ ToBoolean(last.key) /\ last.value # Undefined

\* C1: set(k, v, c) with a non-empty key and a defined value, followed at once
\* by get(k), returns v: neither call raises and get's result is v.
C1_RoundTrip ==
    ProperSet =>
        /\ last.err = NoError
        /\ LET g == get(Engine, last.key, now)
           IN  g.err = NoError /\ g.ret = last.value

\* C2: no key has an object in both the sessionStorage text and the
\* localStorage text.
C2_AtMostOneBackend == DOMAIN ses.map \cap DOMAIN loc.map = {}

\* C3: when set(k, v, c) with a non-empty key and a defined value returns,
\* the storage selected by c holds a well-formed item for k with value v and
\* _cache holds a well-formed item for k with value v and class c.
C3_WriteThrough ==
    ProperSet =>
        /\ last.err = NoError
        /\ Holds(StoreForFlag(last.flag), last.key)
        /\ validateItem(Engine[StoreForFlag(last.flag)].map[last.key])
        /\ Engine[StoreForFlag(last.flag)].map[last.key].value = last.value
        /\ validateItem(CacheAt(Engine, last.key))
        /\ CacheAt(Engine, last.key).value = last.value
        /\ CacheAt(Engine, last.key).isLongTerm = ClassForFlag(last.flag)

\* C4: no public call raises because a namespace text is missing or cannot
\* be parsed.
C4_BlobNeverRaises ==
    last.op \in {"get", "set", "del", "list"} =>
        last.err \notin {ParseError, NullStoreError}

\* C5: get(k) that primes the cache while sessionStorage holds under k an
\* ill-formed object, or one whose id is not k, does not raise, returns null
\* and leaves a well-formed null-valued item for k in _cache.
C5_MalformedIsAbsent ==
    ( /\ last.op = "get" /\ last.path = "prime"
      /\ Holds("ses", last.key)
      /\ \/ ~validateItem(ses.map[last.key])
         \/ ses.map[last.key].id # last.key )
    =>  /\ last.err = NoError
        /\ last.ret = Null
        /\ validateItem(CacheAt(Engine, last.key))
        /\ CacheAt(Engine, last.key).id = last.key
        /\ CacheAt(Engine, last.key).value = Null

\* C6: get, set and del called with an empty or absent key (and no request
\* to delete all) return undefined without raising and leave _cache and both
\* storages as they were.
C6_InvalidKeyNoOp ==
    [][ ( /\ last'.op \in {"get", "set", "del"}
          /\ ~ToBoolean(last'.key)
          /\ ~(last'.op = "del" /\ ToBoolean(last'.flag)) )
        =>  /\ last'.err = NoError
            /\ last'.ret = Undefined
            /\ UNCHANGED <<cache, order, ses, loc>> ]_vars

\* The call that led here computed the expires of the item of last.key:
\* set created or updated it, or get refreshed it or made it up.
ComputedExpires ==
    /\ last.err = NoError
    /\ validateItem(CacheAt(Engine, last.key))
    /\ \/ last.op = "set"
       \/ last.op = "get" /\ last.path = "refresh"
       \/ last.op = "get" /\ last.path = "prime" /\ ~Holds("ses", last.key)

\* C7: an expires just computed is now + ttl for a session item and
\* now + longTtl for a long-term item.
C7_OwnClassTtl ==
    ComputedExpires =>
        CacheAt(Engine, last.key).expires =
            <<"Date", now + OwnTtl(CacheAt(Engine, last.key))>>

\* C8: a value get returns without reading a storage was set, loaded or
\* refreshed no longer ago than the TTL of its item's own class.
C8_StalenessBound ==
    (last.op = "get" /\ last.path = "fresh" /\ last.err = NoError) =>
        now - synced[last.key] <= OwnTtl(CacheAt(Engine, last.key))

\* C9: get(k) for a key that _cache holds with a well-formed item that is not
\* expired returns that item's value, reads and writes no storage and leaves
\* _cache and both storages unchanged.
C9_FreshIsNoOp ==
    [][ ( /\ last'.op = "get"
          /\ validateItem(CacheAt(Engine, last'.key))
          /\ ~isExpired(CacheAt(Engine, last'.key), now) )
        =>  /\ last'.err = NoError
            /\ last'.ret = CacheAt(Engine, last'.key).value
            /\ last'.rd = {} /\ last'.wr = {}
            /\ UNCHANGED <<cache, order, ses, loc>> ]_vars

\* get found a well-formed expired item for last.key and has returned.
Refreshed == last.op = "get" /\ last.path = "refresh" /\ last.err = NoError

\* After a refresh the storage of the item's class holds an object for the
\* key with the value and the expiry time of the item in _cache.
RefreshStored ==
    LET item == CacheAt(Engine, last.key)
    IN  /\ Holds(StoreOf(item), last.key)
        /\ Engine[StoreOf(item)].map[last.key].value = item.value
        /\ DateValue(Engine[StoreOf(item)].map[last.key].expires) = DateValue(item.expires)

StoreValueOr(item, k) ==
    LET blob == Engine[StoreOf(item)]
    IN  IF k \in DOMAIN blob.map /\ validateItem(blob.map[k])
        THEN blob.map[k].value
        ELSE item.value

NewEngine == [cache |-> EmptyObj, order |-> <<>>, ses |-> AbsentBlob, loc |-> AbsentBlob,
              others |-> others]

\* The last call was del with an empty or absent key and confirmDeleteAll.
Wiped == last.op = "del" /\ ~ToBoolean(last.key) /\ ToBoolean(last.flag)

\* C12: after del(key, true) with an empty or absent key _cache is empty and
\* neither storage has a namespace text, and get(k) that follows returns null
\* for every non-empty key without raising and without writing, as it does on
\* a new engine.
C12_FullReset ==
    Wiped =>
        /\ last.err = NoError
        /\ Engine = NewEngine
        /\ \A k \in ManyKeyArgs :
               LET g == get(Engine, k, now)
               IN  /\ g.ret = get(NewEngine, k, now).ret
                   /\ g.err = get(NewEngine, k, now).err
                   /\ ToBoolean(k) => g.err = NoError /\ g.ret = Null /\ g.wr = {}

\* The reset has acted, through the empty string as key, and get("a") after
\* it returns null.
C12_Witness ==
    /\ Wiped
    /\ last.key = ""
    /\ last.wr = {"ses", "loc"}
    /\ Engine = NewEngine
    /\ get(Engine, "a", now).ret = Null

\* C13: when del(k) with a non-empty key returns, _cache has no property k
\* and neither storage holds an object under k.
C13_DelRemovesEverywhere ==
    (last.op = "del" /\ ToBoolean(last.key) /\ last.err = NoError) =>
        /\ last.key \notin DOMAIN cache
        /\ ~Holds("ses", last.key)
        /\ ~Holds("loc", last.key)

\* C14: list() does not raise; the property names of the object it returns
\* are those _cache had when it was called and those _cache has afterwards;
\* and each listed value is what get of that key returns right afterwards.
C14_ListConsistent ==
    [][ last'.op = "list"
        =>  /\ last'.err = NoError
            /\ DOMAIN last'.listed = DOMAIN cache
            /\ DOMAIN cache' = DOMAIN cache
            /\ \A k \in DOMAIN last'.listed :
                   LET g == get([cache |-> cache', order |-> order',
                                 ses |-> ses', loc |-> loc'], k, now')
                   IN  g.err = NoError /\ g.ret = last'.listed[k] ]_vars

\* C15: get(k) with a non-empty key for which _cache has no well-formed item
\* and sessionStorage no object returns null, puts into _cache a well-formed
\* session item for k with value null that is not expired, and writes to
\* neither storage.
C15_SynthesisNotPersisted ==
    [][ ( /\ last'.op = "get"
          /\ ToBoolean(last'.key)
          /\ getCacheItem(Engine, last'.key) = NullItem
          /\ ~Holds("ses", last'.key) )
        =>  /\ last'.err = NoError
            /\ last'.ret = Null
            /\ last'.wr = {}
            /\ UNCHANGED <<ses, loc>>
            /\ last'.key \in DOMAIN cache'
            /\ validateItem(cache'[last'.key])
            /\ cache'[last'.key].id = last'.key
            /\ cache'[last'.key].value = Null
            /\ cache'[last'.key].isLongTerm = "false"
            /\ ~isExpired(cache'[last'.key], now') ]_vars

\* get has made up an item for a key that sessionStorage does not hold.
C15_Witness ==
    /\ last.op = "get" /\ last.path = "prime" /\ last.err = NoError
    /\ ToBoolean(last.key)
    /\ ~Holds("ses", last.key)
    /\ last.ret = Null /\ last.wr = {}
    /\ CacheAt(Engine, last.key).value = Null
    /\ CacheAt(Engine, last.key).isLongTerm = "false"

\* C16: set(k, v, c') with a defined value, for a key _cache holds with a
\* well-formed item of the other class c, does not raise and leaves the
\* storage of c without an object under k and the storage of c' with an
\* object under k whose value is v.
C16_ClassChangeMoves ==
    [][ ( /\ last'.op = "set"
          /\ last'.value # Undefined
          /\ last'.flag \in {"true", "false"}
          /\ validateItem(CacheAt(Engine, last'.key))
          /\ CacheAt(Engine, last'.key).isLongTerm \in {"true", "false"} \ {last'.flag} )
        =>  /\ last'.err = NoError
            /\ last'.key \notin DOMAIN (IF last'.flag = "true" THEN ses' ELSE loc').map
            /\ last'.key \in DOMAIN (IF last'.flag = "true" THEN loc' ELSE ses').map
            /\ (IF last'.flag = "true" THEN loc' ELSE ses').map[last'.key].value
                   = last'.value ]_vars

C18_DelUnknownNoError ==
    [][ ( /\ last'.op = "del"
          /\ ToBoolean(last'.key)
          /\ ~Holds("ses", last'.key)
          /\ ~Holds("loc", last'.key) )
        =>  /\ last'.err = NoError
            /\ last'.key \notin DOMAIN cache'
            /\ last'.key \notin DOMAIN ses'.map
            /\ last'.key \notin DOMAIN loc'.map ]_vars

\* The object a storage text holds under j (NullItem when none).
StoredAt(blob, j) == IF j \in DOMAIN blob.map THEN blob.map[j] ELSE NullItem

\* The keys other than k that _cache or a storage holds, in this state or
\* in the next.
OtherKeys(k) ==
    (DOMAIN cache \cup DOMAIN ses.map \cup DOMAIN loc.map \cup
     DOMAIN cache' \cup DOMAIN ses'.map \cup DOMAIN loc'.map) \ {k}

\* For every key other than k, the item in _cache and the objects in the two
\* storages are left as they were.
OthersUnchanged(k) ==
    \A j \in OtherKeys(k) :
        /\ (j \in DOMAIN cache') = (j \in DOMAIN cache)
        /\ j \in DOMAIN cache => cache'[j] = cache[j]
        /\ StoredAt(ses', j) = StoredAt(ses, j)
        /\ StoredAt(loc', j) = StoredAt(loc, j)

C20_SetMerges ==
    [][ last'.op = "set" => OthersUnchanged(last'.key) ]_vars

\* set("a", ...) has written "a" into a storage that also holds "b".
C20_Witness ==
    /\ last.op = "set" /\ last.key = "a" /\ last.err = NoError
    /\ \E which \in last.wr : Holds(which, "a") /\ Holds(which, "b")
    /\ "b" \in DOMAIN cache

\* C21: the expires set(k, v, c) leaves on the item is the one set gives a
\* newly created item of the item's resulting class at the same time,
\* whatever _cache held for k before.
C21_ExpiryByResultingClass ==
    ( /\ last.op = "set" /\ last.err = NoError
      /\ validateItem(CacheAt(Engine, last.key)) )
    =>  CacheAt(Engine, last.key).expires =
            createNewItem(last.key, last.value,
                          CacheAt(Engine, last.key).isLongTerm, now).expires

\* The TTL set hands to calculateExpiresDate when it creates an item.
TtlPassed == IF ToBoolean(last.flag) THEN options.ttl ELSE options.longTtl

\* C22: calculateExpiresDate gives now + ttl for every ttl it is handed, zero
\* included: the expires of an item set has just created is now plus the TTL
\* that was passed.
C22_ExpiryIsNowPlusTtl ==
    ( /\ last.op = "set" /\ last.path = "create" /\ last.err = NoError
      /\ validateItem(CacheAt(Engine, last.key)) )
    =>  CacheAt(Engine, last.key).expires = <<"Date", now + TtlPassed>>

\* C23: get(k) for a key _cache holds with a well-formed item refreshes it
\* exactly when its expires is before now; when expires equals now get takes
\* the fresh branch and reads and writes no storage.
C23_StrictStaleness ==
    [][ ( /\ last'.op = "get"
          /\ validateItem(CacheAt(Engine, last'.key)) )
        =>  /\ (last'.path = "refresh")
                   <=> (DateValue(CacheAt(Engine, last'.key).expires) < now)
            /\ DateValue(CacheAt(Engine, last'.key).expires) = now
                   =>  /\ last'.path = "fresh"
                       /\ last'.err = NoError
                       /\ last'.rd = {} /\ last'.wr = {}
                       /\ UNCHANGED <<cache, ses, loc>> ]_vars

\* get has taken the fresh branch for an item whose expires equals now, at a
\* time after the item was made.
C23_Witness ==
    /\ last.op = "get" /\ last.path = "fresh" /\ last.err = NoError
    /\ DateValue(CacheAt(Engine, last.key).expires) = now
    /\ now > 0
    /\ last.rd = {} /\ last.wr = {}

\* C24: with positive TTLs, when list() returns every property name _cache
\* had at the call has a well-formed item that is not expired, and every item
\* that was expired at the call is in the storage of its class with the
\* expires it now has in _cache.
C24_ListRefreshes ==
    [][ ( /\ last'.op = "list" /\ last'.err = NoError
          /\ options.ttl > 0 /\ options.longTtl > 0 )
        =>  \A k \in DOMAIN cache :
                /\ k \in DOMAIN cache'
                /\ validateItem(cache'[k])
                /\ ~isExpired(cache'[k], now')
                /\ (validateItem(cache[k]) /\ isExpired(cache[k], now))
                       =>  LET blob == IF ToBoolean(cache'[k].isLongTerm)
                                       THEN loc' ELSE ses'
                           IN  /\ k \in DOMAIN blob.map
                               /\ DateValue(blob.map[k].expires)
                                      = DateValue(cache'[k].expires) ]_vars

C29_IndexWellFormed == \A k \in DOMAIN cache : validateItem(cache[k])

\* C30: for every key whose item in _cache is well-formed, the storage of the
\* item's class holds no object under the key or one with the item's value
\* and expiry time.
C30_MirrorCoherent ==
    \A k \in DOMAIN cache :
        validateItem(cache[k]) =>
            LET stored == StoredAt(Engine[StoreOf(cache[k])], k)
            IN  stored # NullItem =>
                    /\ stored.value = cache[k].value
                    /\ DateValue(stored.expires) = DateValue(cache[k].expires)

\* The text of the storage a two-step call works on, after the step.
TextAfter == IF frame.which = "ses" THEN ses' ELSE loc'

C27_NamespaceIsolation ==
    [][ last'.op \in {"get", "set", "del", "list"} => others' = others ]_vars

\* The reset has removed the namespace text from both storages and the texts
\* under other keys are still there.
C27_Witness ==
    /\ Wiped
    /\ last.wr = {"ses", "loc"}
    /\ ses = AbsentBlob /\ loc = AbsentBlob
    /\ others = [ses |-> OtherText, loc |-> OtherText]
    /\ now > 0


\* C31: a get, set, del or list that raises leaves _cache and both storages
\* exactly as they were before the call.
C31_RaiseLeavesNoTrace ==
    [][ (last'.op \in {"get", "set", "del", "list"} /\ last'.err # NoError)
            => UNCHANGED <<cache, ses, loc>> ]_vars


\* C32: a key no set was ever called with is never written to either storage
\* by get or list.
C32_ReadsNeverPersistUnset ==
    /\ UnsetKey \notin DOMAIN ses.map
    /\ UnsetKey \notin DOMAIN loc.map

\* C32, amended: a key no set was ever called with is never in localStorage,
\* and it comes into sessionStorage by a get or a list, exactly when the item
\* _cache holds for it has expired: the refresh then stores it.
C32_UnsetStoredOnlyByRefresh ==
    [][ LET item == CacheAt(Engine, UnsetKey)
            expired == validateItem(item) /\ DateValue(item.expires) < now
        IN  /\ UnsetKey \notin DOMAIN loc'.map
            /\ (UnsetKey \in DOMAIN ses'.map /\ UnsetKey \notin DOMAIN ses.map)
                   => last'.op \in {"get", "list"} /\ expired
            /\ (last'.op = "get" /\ last'.key = UnsetKey /\ expired)
                   => UnsetKey \in DOMAIN ses'.map ]_vars

\* get has just refreshed the expired item of the key no set was called with,
\* and sessionStorage holds the key with the value null.
C32_Witness ==
    /\ last.op = "get" /\ last.key = UnsetKey /\ last.path = "refresh"
    /\ last.err = NoError /\ last.ret = Null
    /\ StoredAt(ses, UnsetKey) # NullItem
    /\ StoredAt(ses, UnsetKey).value = Null


\* C33: in every reachable state, set(k, undefined, c) does what
\* set(k, null, c) does, whether k is in _cache or not: the same _cache and
\* storages afterwards, with a well-formed item of value null for k in _cache
\* and in the storage of class c.
C33_OmittedValueMeansNull ==
    \A k \in {"a"}, c \in FlagArgs :
        LET omitted == set(Engine, k, Undefined, c, now)
            given == set(Engine, k, Null, c, now)
        IN  /\ omitted.S = given.S
            /\ omitted.err = given.err
            /\ omitted.err = NoError =>
                  /\ validateItem(CacheAt(omitted.S, k))
                  /\ CacheAt(omitted.S, k).value = Null
                  /\ StoredAt(omitted.S[StoreForFlag(c)], k) # NullItem
                  /\ StoredAt(omitted.S[StoreForFlag(c)], k).value = Null


\* C34: constructing an engine, with whatever options, debug included, gives
\* an empty _cache and leaves the namespace text of both storages as it was.
C34_ConstructionKeepsStorage ==
    [][ last'.op = "peer.new" =>
            /\ peer'.cache = EmptyObj
            /\ ses' = ses
            /\ loc' = loc ]_vars


\* C35: with engines as the only writers, every object sessionStorage holds
\* in the namespace text is a well-formed item with isLongTerm false, and
\* every object localStorage holds there is a well-formed item with
\* isLongTerm true.
C35_BlobClassInvariant ==
    /\ \A k \in DOMAIN ses.map :
          validateItem(ses.map[k]) /\ ses.map[k].isLongTerm = "false"
    /\ \A k \in DOMAIN loc.map :
          validateItem(loc.map[k]) /\ loc.map[k].isLongTerm = "true"

\* "a" was stored as a Short item and moved to localStorage by a change of
\* class; set has then been called without a value, which left an ill-formed
\* item in _cache and stored nothing: localStorage holds the Long item as
\* before.
C35_Witness ==
    /\ last.op = "set" /\ last.key = "a" /\ last.value = Undefined
    /\ last.err = NoError
    /\ "a" \in DOMAIN cache /\ ~validateItem(cache["a"])
    /\ ses.kind = "object" /\ "a" \notin DOMAIN ses.map
    /\ StoredAt(loc, "a") # NullItem
    /\ StoredAt(loc, "a").isLongTerm = "true"
    /\ StoredAt(loc, "a").value = "v1"


\* C36: with engines as the only writers, every item in an engine's _cache is
\* held under the key equal to its id, and so is every object in the
\* namespace text of either storage.
C36_KeyIsId ==
    /\ \A k \in DOMAIN cache : cache[k].id = k
    /\ \A k \in DOMAIN peer.cache : peer.cache[k].id = k
    /\ \A k \in DOMAIN ses.map : ses.map[k].id = k
    /\ \A k \in DOMAIN loc.map : loc.map[k].id = k

\* The second engine's get has taken "a" from sessionStorage, where the first
\* engine stored it, into its own _cache.
C36_Witness ==
    /\ last.op = "peer.get" /\ last.key = "a" /\ last.path = "prime"
    /\ last.ret = "v1"
    /\ StoredAt(ses, "a") # NullItem
    /\ "a" \in DOMAIN peer.cache
    /\ peer.cache["a"].id = "a"
    /\ "a" \in DOMAIN cache

============================================================================
